---- MODULE Spec2Model ----
(***************************************************************************)
(* The report service of telegram-report: the submitter (start), the job   *)
(* worker (run_job / build_report), the per-job event queue (push,         *)
(* sse_stream, progress) of app/web.py, and the exhaustive matcher         *)
(* (best_pairs / generate_report) of app/report_menu_table.py.             *)
(*                                                                         *)
(* Scores are kept as integers in units of 1/NORM: web.py computes         *)
(* min(1.0, good/200.0), here min(NORM, good).  A threshold of 0.70 is     *)
(* 140, 1.1 is 220, -0.1 is -20, and the fallback score -1.0 is -NORM.     *)
(* List indices are 0-based as in the source; At(s, i) reads a list.       *)
(***************************************************************************)
EXTENDS Integers, Sequences, FiniteSets, TLC

VARIABLES
  disk,       \* disk[d]: the before/ and after/ image files of input directory d
  TOPK,       \* the module-level TOPK read from FAST_TOPK
  todo,       \* todo[r]: the forms the client of request r may still send
  resp,       \* resp[r]: what start() answered to request r
  JOBS,       \* the JOBS registry: job id -> progress record
  EVENTS,     \* the EVENTS registry: job id -> content of the job's Queue
  published,  \* history: every message push() has put on the job's queue
  pc,         \* pc[j]: where the worker thread of job j stands
  exc,        \* exc[j]: whether the worker raised, and str(e) of the exception
  w,          \* w[j]: the locals of run_job / build_report
  obs,        \* obs[o]: the progress() request of observer o and what it received
  cli,        \* the run of report_menu_table.generate_report
  tmp         \* the files ~tmp_b.jpg and ~tmp_a.jpg of REPORT_ROOT

vars == <<disk, TOPK, todo, resp, JOBS, EVENTS, published, pc, exc, w, obs, cli, tmp>>

(***************************************************************************)
(* Bounds of the model and constants of the program.                       *)
(***************************************************************************)
MaxB == 2
MaxA == 2

NORM == 200
TOPK_DEFAULT == 5
per_page == 4
ORB_SCALE == 128

JobIds == {1, 2, 3}
Observers == {"o1", "o2"}
TopKVals == {0, 1, 2}
ThresholdVals == {-20, 140, 220}
FALLBACK == -NORM

None == 0

(***************************************************************************)
(* Image files.  pil: PIL can open and convert the file; cv: cv2.imdecode  *)
(* returns an array; ph: the 64-bit perceptual hash, here a small number;  *)
(* feat: the descriptors ORB finds (None: no keypoints).                   *)
(***************************************************************************)
Img(pil, cv, ph, feat) == [pil |-> pil, cv |-> cv, ph |-> ph, feat |-> feat]

ImgGood    == Img(TRUE, TRUE, 0, 3)
ImgNoDesc  == Img(TRUE, FALSE, 1, 3)
ImgCorrupt == Img(FALSE, FALSE, 0, None)

PipelineKinds == {ImgGood, ImgCorrupt}
MatchKinds == {Img(TRUE, TRUE, 0, 1), Img(TRUE, TRUE, 3, 1), Img(TRUE, TRUE, 0, 2)}

SeqsUpTo(S, n) == UNION {[1..k -> S] : k \in 0..n}
EmptyDir == [before |-> <<>>, after |-> <<>>]
Dirs(kinds) == [before : SeqsUpTo(kinds, MaxB), after : SeqsUpTo(kinds, MaxA)]

At(s, i) == s[i + 1]
Min(a, b) == IF a <= b THEN a ELSE b
Max(a, b) == IF a >= b THEN a ELSE b
Last(s) == s[Len(s)]

(***************************************************************************)
(* Fingerprints and scores.                                                *)
(***************************************************************************)
RECURSIVE Xor(_, _)
Xor(a, b) ==
  IF a = 0 /\ b = 0 THEN 0
  ELSE (((a % 2) + (b % 2)) % 2) + (2 * Xor(a \div 2, b \div 2))

RECURSIVE PopCount(_)
PopCount(n) == IF n = 0 THEN 0 ELSE (n % 2) + PopCount(n \div 2)

hamming(a, b) == PopCount(Xor(a, b))

\* imread_gray_resized + orb.detectAndCompute: the descriptors kept in be_desc / af_desc
Descriptor(img) == IF img.cv THEN img.feat ELSE None

\* what bf.knnMatch and the ratio test count as good matches of two descriptor sets
KnnGood(da, db) ==
  IF da = 1 /\ db = 1 THEN 180
  ELSE IF da = 3 /\ db = 3 THEN 250
  ELSE 60

score_pair(des_a, des_b) ==
  IF des_a = None \/ des_b = None THEN 0
  ELSE Min(NORM, KnnGood(des_a, des_b))

(***************************************************************************)
(* The matching loop of build_report, one before-image at a time.          *)
(***************************************************************************)
\* the filter on used dropped
UnusedAfter_all(na, used) == 0..(na - 1)

UnusedAfter(na, used) == {j \in 0..(na - 1) : j \notin used}

\* equal distances come out in descending index order
RECURSIVE SortByDistance_tiesreversed(_, _)
SortByDistance_tiesreversed(S, dist) ==
  IF S = {} THEN <<>>
  ELSE LET j == CHOOSE x \in S : \A y \in S :
                    dist[x] < dist[y] \/ (dist[x] = dist[y] /\ x >= y)
       IN <<j>> \o SortByDistance_tiesreversed(S \ {j}, dist)

\* dlist after the stable sort by fingerprint distance
RECURSIVE SortByDistance(_, _)
SortByDistance(S, dist) ==
  IF S = {} THEN <<>>
  ELSE LET j == CHOOSE x \in S : \A y \in S :
                    dist[x] < dist[y] \/ (dist[x] = dist[y] /\ x <= y)
       IN <<j>> \o SortByDistance(S \ {j}, dist)

\* the slice [:max(1, TOPK)] dropped
Candidates_untruncated(be_ph_i, af_ph, used, topk) ==
  LET na     == Len(af_ph)
      unused == UnusedAfter(na, used)
      dist   == [j \in unused |-> hamming(be_ph_i, At(af_ph, j))]
  IN SortByDistance(unused, dist)

Candidates(be_ph_i, af_ph, used, topk) ==
  LET na     == Len(af_ph)
      unused == UnusedAfter(na, used)
      dist   == [j \in unused |-> hamming(be_ph_i, At(af_ph, j))]
      dlist  == SortByDistance(unused, dist)
  IN SubSeq(dlist, 1, Min(Len(dlist), Max(1, topk)))

\* a later candidate wins with an equal score too
RECURSIVE BestOf_lastwins(_, _, _)
BestOf_lastwins(cand, score, best) ==
  IF cand = <<>> THEN best
  ELSE LET j == Head(cand)
           s == score[j]
       IN BestOf_lastwins(Tail(cand), score,
                          IF s >= best.s THEN [j |-> j, s |-> s] ELSE best)

\* the scan for the best candidate: a later candidate wins only with a strictly higher score
RECURSIVE BestOf(_, _, _)
BestOf(cand, score, best) ==
  IF cand = <<>> THEN best
  ELSE LET j == Head(cand)
           s == score[j]
       IN BestOf(Tail(cand), score,
                 IF s > best.s THEN [j |-> j, s |-> s] ELSE best)

NoBest == [j |-> -1, s |-> FALLBACK]

\* the threshold test dropped: any best candidate is accepted
Resolve_nothreshold(idx, best, na, used, pairs, threshold) ==
  IF best.j # -1
  THEN [used |-> used \cup {best.j},
        pairs |-> Append(pairs, [b |-> idx, a |-> best.j, s |-> best.s]),
        kind |-> "matched"]
  ELSE IF idx < na /\ idx \notin used
  THEN [used |-> used \cup {idx},
        pairs |-> Append(pairs, [b |-> idx, a |-> idx, s |-> FALLBACK]),
        kind |-> "unmatched"]
  ELSE [used |-> used, pairs |-> pairs, kind |-> "none"]

\* the fallback takes the first unused after-image instead of the one at idx
Resolve_anyunused(idx, best, na, used, pairs, threshold) ==
  LET free == {j \in 0..(na - 1) : j \notin used}
      f    == CHOOSE x \in free : \A y \in free : x <= y
  IN IF best.j # -1 /\ best.s >= threshold
     THEN [used |-> used \cup {best.j},
           pairs |-> Append(pairs, [b |-> idx, a |-> best.j, s |-> best.s]),
           kind |-> "matched"]
     ELSE IF free # {}
     THEN [used |-> used \cup {f},
           pairs |-> Append(pairs, [b |-> idx, a |-> f, s |-> FALLBACK]),
           kind |-> "unmatched"]
     ELSE [used |-> used, pairs |-> pairs, kind |-> "none"]

\* the fallback does not look at used
Resolve_fallbackused(idx, best, na, used, pairs, threshold) ==
  IF best.j # -1 /\ best.s >= threshold
  THEN [used |-> used \cup {best.j},
        pairs |-> Append(pairs, [b |-> idx, a |-> best.j, s |-> best.s]),
        kind |-> "matched"]
  ELSE IF idx < na
  THEN [used |-> used \cup {idx},
        pairs |-> Append(pairs, [b |-> idx, a |-> idx, s |-> FALLBACK]),
        kind |-> "unmatched"]
  ELSE [used |-> used, pairs |-> pairs, kind |-> "none"]

\* accept the best candidate, fall back to the same index, or leave idx unpaired
Resolve(idx, best, na, used, pairs, threshold) ==
  IF best.j # -1 /\ best.s >= threshold
  THEN [used |-> used \cup {best.j},
        pairs |-> Append(pairs, [b |-> idx, a |-> best.j, s |-> best.s]),
        kind |-> "matched"]
  ELSE IF idx < na /\ idx \notin used
  THEN [used |-> used \cup {idx},
        pairs |-> Append(pairs, [b |-> idx, a |-> idx, s |-> FALLBACK]),
        kind |-> "unmatched"]
  ELSE [used |-> used, pairs |-> pairs, kind |-> "none"]

\* the scores of the candidates of before-image idx
Scores(idx, l) ==
  [j \in {l.cand[k] : k \in 1..Len(l.cand)} |->
     score_pair(At(l.be_desc, idx), At(l.af_desc, j))]

\* the rest of the iteration once cand is computed
MatchOne(idx, l) ==
  Resolve(idx, BestOf(l.cand, Scores(idx, l), NoBest),
          Len(l.af_ph), l.used, l.pairs, l.threshold)

(***************************************************************************)
(* report_menu_table.py: orb_score and the exhaustive matcher best_pairs.  *)
(***************************************************************************)
\* the average distance of the cross-checked matches of two descriptor sets
OrbAvg(da, db) ==
  IF da = 1 /\ db = 1 THEN 13
  ELSE IF da = 3 /\ db = 3 THEN 0
  ELSE 90

orb_score(a, b) ==
  IF ~a.cv \/ ~b.cv THEN 0
  ELSE IF a.feat = None \/ b.feat = None THEN 0
  ELSE Max(0, NORM - ((OrbAvg(a.feat, b.feat) * NORM) \div ORB_SCALE))

\* the after-images the inner loop does not skip, in index order
BpUnused(na, used) == {j \in 0..(na - 1) : j \notin used}

RECURSIVE BpIndexOrder(_)
BpIndexOrder(S) ==
  IF S = {} THEN <<>>
  ELSE LET j == CHOOSE x \in S : \A y \in S : x <= y
       IN <<j>> \o BpIndexOrder(S \ {j})

\* best_pairs after its first n before-images
RECURSIVE BestPairsLoop(_, _, _, _)
BestPairsLoop(n, befores, afters, threshold) ==
  IF n = 0 THEN [pairs |-> <<>>, used |-> {}]
  ELSE LET prev  == BestPairsLoop(n - 1, befores, afters, threshold)
           bi    == n - 1
           cand  == BpIndexOrder(BpUnused(Len(afters), prev.used))
           score == [j \in BpUnused(Len(afters), prev.used) |->
                       orb_score(At(befores, bi), At(afters, j))]
           best  == BestOf(cand, score, NoBest)
           r     == Resolve(bi, best, Len(afters), prev.used, prev.pairs, threshold)
       IN [pairs |-> r.pairs, used |-> r.used]

best_pairs(befores, afters, threshold) ==
  BestPairsLoop(Len(befores), befores, afters, threshold).pairs

(***************************************************************************)
(* The progress record and the event queue.                                *)
(***************************************************************************)
NewJob == [state |-> "queued", done |-> 0, total |-> 0, matched |-> 0,
           unmatched |-> 0, before |-> 0, after |-> 0, pages |-> 0]

\* dict.update
Update(d, u) ==
  [k \in DOMAIN d \cup DOMAIN u |-> IF k \in DOMAIN u THEN u[k] ELSE d[k]]

NoException == [raised |-> FALSE, msg |-> ""]
Raise(msg) == [raised |-> TRUE, msg |-> msg]

NoLocals == [threshold |-> 0, nb |-> 0, na |-> 0, be_ph |-> <<>>, af_ph |-> <<>>,
             be_desc |-> <<>>, af_desc |-> <<>>, pairs |-> <<>>, used |-> {},
             idx |-> 0, cand |-> <<>>, pos |-> 0, doc |-> <<>>]

\* REPORT_ROOT holds neither temporary file; a file is <<>> when missing, else <<picture>>
NoTmp == [b |-> <<>>, a |-> <<>>]

\* push(job_id): the queue is looked up and, when there is one, gets a snapshot
Push(j, jobs) ==
  IF j \in DOMAIN EVENTS
  THEN /\ EVENTS' = [EVENTS EXCEPT ![j] = Append(@, jobs[j])]
       /\ published' = [published EXCEPT ![j] = Append(@, jobs[j])]
  ELSE UNCHANGED <<EVENTS, published>>

\* the form of a POST /start: whether threshold parses as a float, whether month
\* and site are filled in, and the threshold
Forms == [numeric : BOOLEAN, named : BOOLEAN, threshold : ThresholdVals]

\* a form that leaves threshold to its default "0.70"
DefaultForm == [numeric |-> TRUE, named |-> TRUE, threshold |-> 140]

(***************************************************************************)
(* Initial states: nothing submitted, the registries empty.                *)
(***************************************************************************)
InitWith(kinds, topks, programs) ==
  /\ \E dir \in Dirs(kinds) : disk = [d \in JobIds |-> IF d = 1 THEN dir ELSE EmptyDir]
  /\ TOPK \in topks
  /\ \E program \in programs :
       /\ todo = [r \in JobIds |-> IF program = "web" /\ r = 1 THEN Forms ELSE {}]
       /\ cli = [pc |-> IF program = "cli" THEN "idle" ELSE "off",
                 dir |-> 0, threshold |-> 0, pairs |-> <<>>]
  /\ resp = [r \in JobIds |-> "none"]
  /\ JOBS = <<>>
  /\ EVENTS = <<>>
  /\ published = [j \in JobIds |-> <<>>]
  /\ pc = [j \in JobIds |-> "idle"]
  /\ exc = [j \in JobIds |-> NoException]
  /\ w = [j \in JobIds |-> NoLocals]
  /\ obs = [o \in Observers |-> [st |-> "idle", job |-> 0, since |-> 0, got |-> <<>>]]
  /\ tmp = NoTmp

Init == InitWith(PipelineKinds, {TOPK_DEFAULT}, {"web"})

(***************************************************************************)
(* start(): POST /start. pc[r] is the position of request r in start()     *)
(* until the thread is started, and the position of the worker after.      *)
(***************************************************************************)
\* start(): the form is read and checked and the record is stored
Start(r) ==
  /\ todo[r] # {}
  /\ todo' = [todo EXCEPT ![r] = {}]
  /\ \E form \in todo[r] :
       IF ~form.numeric
       THEN /\ resp' = [resp EXCEPT ![r] = "500"]
            /\ UNCHANGED <<JOBS, EVENTS, pc, w>>
       ELSE IF ~form.named
       THEN /\ resp' = [resp EXCEPT ![r] = "400"]
            /\ UNCHANGED <<JOBS, EVENTS, pc, w>>
       ELSE /\ JOBS' = (r :> NewJob) @@ JOBS
            /\ pc' = [pc EXCEPT ![r] = "start_queue"]
            /\ w' = [w EXCEPT ![r] = [NoLocals EXCEPT !.threshold = form.threshold]]
            /\ UNCHANGED <<resp, EVENTS>>
  /\ UNCHANGED <<disk, TOPK, published, exc, obs, cli, tmp>>

\* start() goes on to the thread without having made the queue
StartQueue_noqueue(r) ==
  /\ pc[r] = "start_queue"
  /\ pc' = [pc EXCEPT ![r] = "start_thread"]
  /\ UNCHANGED <<disk, TOPK, todo, resp, JOBS, EVENTS, published, exc, w, obs, cli, tmp>>

\* start(): EVENTS[job_id] = Queue()
StartQueue(r) ==
  /\ pc[r] = "start_queue"
  /\ EVENTS' = (r :> <<>>) @@ EVENTS
  /\ pc' = [pc EXCEPT ![r] = "start_thread"]
  /\ UNCHANGED <<disk, TOPK, todo, resp, JOBS, published, exc, w, obs, cli, tmp>>

\* start(): the worker thread is started and the job id is returned at once
StartThread(r) ==
  /\ pc[r] = "start_thread"
  /\ pc' = [pc EXCEPT ![r] = "run_job"]
  /\ resp' = [resp EXCEPT ![r] = "ok"]
  /\ UNCHANGED <<disk, TOPK, todo, JOBS, EVENTS, published, exc, w, obs, cli, tmp>>

(***************************************************************************)
(* run_job and build_report, one step per mutation of the progress record. *)
(***************************************************************************)
\* run_job: state "starting", pushed
RunJob(j) ==
  /\ pc[j] = "run_job"
  /\ LET jobs == [JOBS EXCEPT ![j] = Update(@, [state |-> "starting", done |-> 0, total |-> 0])]
     IN /\ JOBS' = jobs
        /\ Push(j, jobs)
  /\ pc' = [pc EXCEPT ![j] = "load"]
  /\ UNCHANGED <<disk, TOPK, todo, resp, exc, w, obs, cli, tmp>>

\* build_report: the two folders are listed and the record says "preprocess"
LoadImages(j) ==
  /\ pc[j] = "load"
  /\ LET nb == Len(disk[j].before)
         na == Len(disk[j].after)
     IN /\ w' = [w EXCEPT ![j].nb = nb, ![j].na = na]
        /\ JOBS' = [JOBS EXCEPT ![j] = Update(@, [total |-> nb, state |-> "preprocess",
                                                  done |-> 0, before |-> nb, after |-> na])]
  /\ pc' = [pc EXCEPT ![j] = "check"]
  /\ UNCHANGED <<disk, TOPK, todo, resp, EVENTS, published, exc, obs, cli, tmp>>

\* build_report: no images on either side raises
CheckEmpty(j) ==
  /\ pc[j] = "check"
  /\ IF w[j].nb = 0 \/ w[j].na = 0
     THEN /\ pc' = [pc EXCEPT ![j] = "except"]
          /\ exc' = [exc EXCEPT ![j] = Raise("No images in before/ or after/")]
     ELSE /\ pc' = [pc EXCEPT ![j] = "fp_before"]
          /\ UNCHANGED exc
  /\ UNCHANGED <<disk, TOPK, todo, resp, JOBS, EVENTS, published, w, obs, cli, tmp>>

\* phash(p) opens the file with PIL and raises when it cannot
CanHash(imgs) == \A k \in 1..Len(imgs) : imgs[k].pil

Hashes(imgs) == [k \in 1..Len(imgs) |-> imgs[k].ph]
Descriptors(imgs) == [k \in 1..Len(imgs) |-> Descriptor(imgs[k])]

FingerprintBefores(j) ==
  /\ pc[j] = "fp_before"
  /\ IF CanHash(disk[j].before)
     THEN /\ w' = [w EXCEPT ![j].be_ph = Hashes(disk[j].before),
                            ![j].be_desc = Descriptors(disk[j].before)]
          /\ pc' = [pc EXCEPT ![j] = "fp_after"]
          /\ UNCHANGED exc
     ELSE /\ pc' = [pc EXCEPT ![j] = "except"]
          /\ exc' = [exc EXCEPT ![j] = Raise("cannot identify image file")]
          /\ UNCHANGED w
  /\ UNCHANGED <<disk, TOPK, todo, resp, JOBS, EVENTS, published, obs, cli, tmp>>

FingerprintAfters(j) ==
  /\ pc[j] = "fp_after"
  /\ IF CanHash(disk[j].after)
     THEN /\ w' = [w EXCEPT ![j].af_ph = Hashes(disk[j].after),
                            ![j].af_desc = Descriptors(disk[j].after)]
          /\ pc' = [pc EXCEPT ![j] = "match_init"]
          /\ UNCHANGED exc
     ELSE /\ pc' = [pc EXCEPT ![j] = "except"]
          /\ exc' = [exc EXCEPT ![j] = Raise("cannot identify image file")]
          /\ UNCHANGED w
  /\ UNCHANGED <<disk, TOPK, todo, resp, JOBS, EVENTS, published, obs, cli, tmp>>

\* the record is set back to "starting" instead of forward to "matching"
MatchInit_backwards(j) ==
  /\ pc[j] = "match_init"
  /\ JOBS' = [JOBS EXCEPT ![j] = Update(@, [state |-> "starting", done |-> 0,
                                            matched |-> 0, unmatched |-> 0])]
  /\ w' = [w EXCEPT ![j].pairs = <<>>, ![j].used = {}, ![j].idx = 0]
  /\ pc' = [pc EXCEPT ![j] = "match"]
  /\ UNCHANGED <<disk, TOPK, todo, resp, EVENTS, published, exc, obs, cli, tmp>>

\* build_report: the record says "matching", the counters are reset
MatchInit(j) ==
  /\ pc[j] = "match_init"
  /\ JOBS' = [JOBS EXCEPT ![j] = Update(@, [state |-> "matching", done |-> 0,
                                            matched |-> 0, unmatched |-> 0])]
  /\ w' = [w EXCEPT ![j].pairs = <<>>, ![j].used = {}, ![j].idx = 0]
  /\ pc' = [pc EXCEPT ![j] = "match"]
  /\ UNCHANGED <<disk, TOPK, todo, resp, EVENTS, published, exc, obs, cli, tmp>>

\* the slice is taken with a width that is not the configured one
PickCandidates_anywidth(j) ==
  /\ pc[j] = "match"
  /\ IF w[j].idx < w[j].nb
     THEN /\ \E k \in TopKVals :
               w' = [w EXCEPT ![j].cand = Candidates(At(w[j].be_ph, w[j].idx),
                                                    w[j].af_ph, w[j].used, k)]
          /\ pc' = [pc EXCEPT ![j] = "score"]
     ELSE /\ pc' = [pc EXCEPT ![j] = "render"]
          /\ UNCHANGED w
  /\ UNCHANGED <<disk, TOPK, todo, resp, JOBS, EVENTS, published, exc, obs, cli, tmp>>

\* the head of the loop and the candidates of the next before-image
PickCandidates(j) ==
  /\ pc[j] = "match"
  /\ IF w[j].idx < w[j].nb
     THEN /\ w' = [w EXCEPT ![j].cand = Candidates(At(w[j].be_ph, w[j].idx),
                                                  w[j].af_ph, w[j].used, TOPK)]
          /\ pc' = [pc EXCEPT ![j] = "score"]
     ELSE /\ pc' = [pc EXCEPT ![j] = "render"]
          /\ UNCHANGED w
  /\ UNCHANGED <<disk, TOPK, todo, resp, JOBS, EVENTS, published, exc, obs, cli, tmp>>

\* the rest of the iteration up to the matched / unmatched counter
MatchPair(j) ==
  /\ pc[j] = "score"
  /\ LET r == MatchOne(w[j].idx, w[j])
     IN /\ w' = [w EXCEPT ![j].used = r.used, ![j].pairs = r.pairs]
        /\ JOBS' = [JOBS EXCEPT ![j] =
             CASE r.kind = "matched" -> Update(@, [matched |-> @.matched + 1])
               [] r.kind = "unmatched" -> Update(@, [unmatched |-> @.unmatched + 1])
               [] OTHER -> @]
        /\ pc' = [pc EXCEPT ![j] = "match_done"]
  /\ UNCHANGED <<disk, TOPK, todo, resp, EVENTS, published, exc, obs, cli, tmp>>

\* done counts the pairs, not the before-images
MatchDone_pairs(j) ==
  /\ pc[j] = "match_done"
  /\ JOBS' = [JOBS EXCEPT ![j] = Update(@, [done |-> Len(w[j].pairs)])]
  /\ w' = [w EXCEPT ![j].idx = @ + 1]
  /\ pc' = [pc EXCEPT ![j] = "match"]
  /\ UNCHANGED <<disk, TOPK, todo, resp, EVENTS, published, exc, obs, cli, tmp>>

\* the end of the iteration: progress["done"] = idx + 1
MatchDone(j) ==
  /\ pc[j] = "match_done"
  /\ JOBS' = [JOBS EXCEPT ![j] = Update(@, [done |-> w[j].idx + 1])]
  /\ w' = [w EXCEPT ![j].idx = @ + 1]
  /\ pc' = [pc EXCEPT ![j] = "match"]
  /\ UNCHANGED <<disk, TOPK, todo, resp, EVENTS, published, exc, obs, cli, tmp>>

\* the number of pages the document gets; progress["pages"] is written from the second page on
Pages(npairs) == (npairs + per_page - 1) \div per_page

\* add_pair_table is called once per pair, in the order of pairs; pos counts the
\* pictures placed so far: 2 * i for the left cell of pair i, 2 * i + 1 for the right
Side(pos) == IF pos % 2 = 0 THEN "b" ELSE "a"

Picture(d, pairs, pos) ==
  LET p == At(pairs, pos \div 2)
  IN IF pos % 2 = 0 THEN At(disk[d].before, p.b) ELSE At(disk[d].after, p.a)

AfterPicture(j) == IF w[j].pos + 1 < 2 * Len(w[j].pairs) THEN "tmp_save" ELSE "save"

\* the document is created; the pages the loops will count are recorded here
Render(j) ==
  /\ pc[j] = "render"
  /\ JOBS' = [JOBS EXCEPT ![j] =
       IF Len(w[j].pairs) > per_page
       THEN Update(@, [pages |-> Pages(Len(w[j].pairs))])
       ELSE @]
  /\ w' = [w EXCEPT ![j].pos = 0, ![j].doc = <<>>]
  /\ pc' = [pc EXCEPT ![j] = IF w[j].pairs = <<>> THEN "save" ELSE "tmp_save"]
  /\ UNCHANGED <<disk, TOPK, todo, resp, EVENTS, published, exc, obs, cli, tmp>>

\* add_pair_table: im.save(tmp) writes the cropped picture to the temporary file
SaveTmp(j) ==
  /\ pc[j] = "tmp_save"
  /\ tmp' = [tmp EXCEPT ![Side(w[j].pos)] = <<Picture(j, w[j].pairs, w[j].pos)>>]
  /\ pc' = [pc EXCEPT ![j] = "add_picture"]
  /\ UNCHANGED <<disk, TOPK, todo, resp, JOBS, EVENTS, published, exc, w, obs, cli>>

\* add_pair_table: add_picture(str(tmp)) reads the temporary file; when the file is
\* missing the handler writes "(gambar gagal)" (here <<>>) and the unlink is skipped
AddPicture(j) ==
  /\ pc[j] = "add_picture"
  /\ LET file == tmp[Side(w[j].pos)]
     IN /\ w' = [w EXCEPT ![j].doc = Append(@, file),
                          ![j].pos = IF file = <<>> THEN @ + 1 ELSE @]
        /\ pc' = [pc EXCEPT ![j] = IF file = <<>> THEN AfterPicture(j) ELSE "unlink"]
  /\ UNCHANGED <<disk, TOPK, todo, resp, JOBS, EVENTS, published, exc, obs, cli, tmp>>

\* add_pair_table: tmp.unlink(missing_ok=True)
Unlink(j) ==
  /\ pc[j] = "unlink"
  /\ tmp' = [tmp EXCEPT ![Side(w[j].pos)] = <<>>]
  /\ w' = [w EXCEPT ![j].pos = @ + 1]
  /\ pc' = [pc EXCEPT ![j] = AfterPicture(j)]
  /\ UNCHANGED <<disk, TOPK, todo, resp, JOBS, EVENTS, published, exc, obs, cli>>

\* doc.save(out_path) may fail; after it the record says "done"
Save(j) ==
  /\ pc[j] = "save"
  /\ \E saved \in BOOLEAN :
       IF saved
       THEN /\ JOBS' = [JOBS EXCEPT ![j] = Update(@, [state |-> "done", download |-> "out_path"])]
            /\ pc' = [pc EXCEPT ![j] = "final_push"]
            /\ UNCHANGED exc
       ELSE /\ pc' = [pc EXCEPT ![j] = "except"]
            /\ exc' = [exc EXCEPT ![j] = Raise("Permission denied")]
            /\ UNCHANGED JOBS
  /\ UNCHANGED <<disk, TOPK, todo, resp, EVENTS, published, w, obs, cli, tmp>>

\* run_job returns without the push after build_report
FinalPush_nopush(j) ==
  /\ pc[j] = "final_push"
  /\ pc' = [pc EXCEPT ![j] = "exit"]
  /\ UNCHANGED <<disk, TOPK, todo, resp, JOBS, EVENTS, published, exc, w, obs, cli, tmp>>

\* run_job: the push after build_report returned
FinalPush(j) ==
  /\ pc[j] = "final_push"
  /\ Push(j, JOBS)
  /\ pc' = [pc EXCEPT ![j] = "exit"]
  /\ UNCHANGED <<disk, TOPK, todo, resp, JOBS, exc, w, obs, cli, tmp>>

\* the handler records the error and forgets to push it
Except_nopush(j) ==
  /\ pc[j] = "except"
  /\ JOBS' = [JOBS EXCEPT ![j] = Update(@, [state |-> "error", error |-> exc[j].msg])]
  /\ pc' = [pc EXCEPT ![j] = "exit"]
  /\ UNCHANGED <<disk, TOPK, todo, resp, EVENTS, published, exc, w, obs, cli, tmp>>

\* run_job: except Exception as e
Except(j) ==
  /\ pc[j] = "except"
  /\ LET jobs == [JOBS EXCEPT ![j] = Update(@, [state |-> "error", error |-> exc[j].msg])]
     IN /\ JOBS' = jobs
        /\ Push(j, jobs)
  /\ pc' = [pc EXCEPT ![j] = "exit"]
  /\ UNCHANGED <<disk, TOPK, todo, resp, exc, w, obs, cli, tmp>>

Worker(j) ==
  \/ RunJob(j)
  \/ LoadImages(j)
  \/ CheckEmpty(j)
  \/ FingerprintBefores(j)
  \/ FingerprintAfters(j)
  \/ MatchInit(j)
  \/ PickCandidates(j)
  \/ MatchPair(j)
  \/ MatchDone(j)
  \/ Render(j)
  \/ SaveTmp(j)
  \/ AddPicture(j)
  \/ Unlink(j)
  \/ Save(j)
  \/ FinalPush(j)
  \/ Except(j)

(***************************************************************************)
(* progress(): GET /progress/<job_id>, and the stream it returns.          *)
(***************************************************************************)
Ping == [event |-> "ping", n |-> 0, data |-> <<>>]

\* the stream starts with the queue, without the ping
Subscribe_noping(o, j) ==
  /\ obs[o].st = "idle"
  /\ IF j \notin DOMAIN EVENTS
     THEN obs' = [obs EXCEPT ![o].st = "404"]
     ELSE obs' = [obs EXCEPT ![o] = [st |-> "open", job |-> j,
                                     since |-> Len(published[j]), got |-> <<>>]]
  /\ UNCHANGED <<disk, TOPK, todo, resp, JOBS, EVENTS, published, pc, exc, w, cli, tmp>>

\* progress(job_id) and the first item of sse_stream
Subscribe(o, j) ==
  /\ obs[o].st = "idle"
  /\ IF j \notin DOMAIN EVENTS
     THEN obs' = [obs EXCEPT ![o].st = "404"]
     ELSE obs' = [obs EXCEPT ![o] = [st |-> "open", job |-> j,
                                     since |-> Len(published[j]), got |-> <<Ping>>]]
  /\ UNCHANGED <<disk, TOPK, todo, resp, JOBS, EVENTS, published, pc, exc, w, cli, tmp>>

\* the stream hands over the newest message and discards the older ones
Receive_newest(o) ==
  /\ obs[o].st = "open"
  /\ LET j == obs[o].job
         q == EVENTS[j]
     IN /\ q # <<>>
        /\ EVENTS' = [EVENTS EXCEPT ![j] = <<>>]
        /\ obs' = [obs EXCEPT ![o].got =
                     Append(@, [event |-> "message",
                                n |-> Len(published[j]),
                                data |-> Last(q)])]
  /\ UNCHANGED <<disk, TOPK, todo, resp, JOBS, published, pc, exc, w, cli, tmp>>

\* the stream serializes the record as it is when the message is taken
Receive_live(o) ==
  /\ obs[o].st = "open"
  /\ LET j == obs[o].job
         q == EVENTS[j]
     IN /\ q # <<>>
        /\ EVENTS' = [EVENTS EXCEPT ![j] = Tail(q)]
        /\ obs' = [obs EXCEPT ![o].got =
                     Append(@, [event |-> "message",
                                n |-> Len(published[j]) - Len(q) + 1,
                                data |-> JOBS[j]])]
  /\ UNCHANGED <<disk, TOPK, todo, resp, JOBS, published, pc, exc, w, cli, tmp>>

\* sse_stream: q.get() takes the oldest message off the job's queue
Receive(o) ==
  /\ obs[o].st = "open"
  /\ LET j == obs[o].job
         q == EVENTS[j]
     IN /\ q # <<>>
        /\ EVENTS' = [EVENTS EXCEPT ![j] = Tail(q)]
        /\ obs' = [obs EXCEPT ![o].got =
                     Append(@, [event |-> "message",
                                n |-> Len(published[j]) - Len(q) + 1,
                                data |-> Head(q)])]
  /\ UNCHANGED <<disk, TOPK, todo, resp, JOBS, published, pc, exc, w, cli, tmp>>

\* the dropped connection cancels the worker of the job
Abandon_cancels(o) ==
  /\ obs[o].st = "open"
  /\ obs' = [obs EXCEPT ![o].st = "gone"]
  /\ pc' = [pc EXCEPT ![obs[o].job] = "exit"]
  /\ UNCHANGED <<disk, TOPK, todo, resp, JOBS, EVENTS, published, exc, w, cli, tmp>>

\* the client of an open stream drops its connection; nothing tells the code
Abandon(o) ==
  /\ obs[o].st = "open"
  /\ obs' = [obs EXCEPT ![o].st = "gone"]
  /\ UNCHANGED <<disk, TOPK, todo, resp, JOBS, EVENTS, published, pc, exc, w, cli, tmp>>

\* sse_stream of a client that is gone: the pending q.get() still takes a message
\* off the queue; the yield that follows finds no client and the stream is closed
Drop(o) ==
  /\ obs[o].st = "gone"
  /\ LET j == obs[o].job
     IN /\ EVENTS[j] # <<>>
        /\ EVENTS' = [EVENTS EXCEPT ![j] = Tail(@)]
  /\ obs' = [obs EXCEPT ![o].st = "closed"]
  /\ UNCHANGED <<disk, TOPK, todo, resp, JOBS, published, pc, exc, w, cli, tmp>>

(***************************************************************************)
(* generate_report of report_menu_table.py on one input directory.         *)
(***************************************************************************)
GenerateReport ==
  /\ cli.pc = "idle"
  /\ \E d \in JobIds, threshold \in ThresholdVals :
       IF disk[d].before = <<>> \/ disk[d].after = <<>>
       THEN cli' = [cli EXCEPT !.pc = "exit2", !.dir = d, !.threshold = threshold]
       ELSE cli' = [pc |-> "saved", dir |-> d, threshold |-> threshold,
                    pairs |-> best_pairs(disk[d].before, disk[d].after, threshold)]
  /\ UNCHANGED <<disk, TOPK, todo, resp, JOBS, EVENTS, published, pc, exc, w, obs, tmp>>

Next ==
  \/ \E r \in JobIds : Start(r)
  \/ \E r \in JobIds : StartQueue(r)
  \/ \E r \in JobIds : StartThread(r)
  \/ \E j \in JobIds : Worker(j)
  \/ \E o \in Observers, j \in JobIds : Subscribe(o, j)
  \/ \E o \in Observers : Receive(o)
  \/ \E o \in Observers : Abandon(o)
  \/ \E o \in Observers : Drop(o)

Spec == Init /\ [][Next]_vars

\* the two matchers alone, on every directory of the richer image kinds
InitMatch == InitWith(MatchKinds, TopKVals, {"web", "cli"})

NextMatch ==
  \/ \E r \in JobIds : Start(r)
  \/ \E r \in JobIds : StartQueue(r)
  \/ \E r \in JobIds : StartThread(r)
  \/ \E j \in JobIds : Worker(j)
  \/ GenerateReport

SpecMatch == InitMatch /\ [][NextMatch]_vars

\* three requests for three different folders of one before and one after picture;
\* the before file of the second folder may be one PIL cannot open, the after file
\* of the third folder is one cv2 cannot decode
JobDir(d, readable) ==
  [before |-> <<Img(readable, readable, d, 1)>>,
   after |-> <<IF d = 3 THEN ImgNoDesc ELSE Img(TRUE, TRUE, d + 3, 1)>>]

InitJobs ==
  /\ \E readable \in BOOLEAN : disk = [d \in JobIds |-> JobDir(d, d # 2 \/ readable)]
  /\ TOPK = TOPK_DEFAULT
  /\ todo = [r \in JobIds |-> {DefaultForm}]
  /\ cli = [pc |-> "off", dir |-> 0, threshold |-> 0, pairs |-> <<>>]
  /\ resp = [r \in JobIds |-> "none"]
  /\ JOBS = <<>>
  /\ EVENTS = <<>>
  /\ published = [j \in JobIds |-> <<>>]
  /\ pc = [j \in JobIds |-> "idle"]
  /\ exc = [j \in JobIds |-> NoException]
  /\ w = [j \in JobIds |-> NoLocals]
  /\ obs = [o \in Observers |-> [st |-> "idle", job |-> 0, since |-> 0, got |-> <<>>]]
  /\ tmp = NoTmp

NextJobs ==
  \/ \E r \in JobIds : Start(r)
  \/ \E r \in JobIds : StartQueue(r)
  \/ \E r \in JobIds : StartThread(r)
  \/ \E j \in JobIds : Worker(j)

SpecJobs == InitJobs /\ [][NextJobs]_vars

\* one job and one observer, all scheduled fairly: the request handler runs on,
\* the worker is a thread of its own, and the server pulls the stream of a
\* connected observer
InitLive == InitWith(PipelineKinds, {TOPK_DEFAULT}, {"web"})

NextLive ==
  \/ \E r \in JobIds : Start(r)
  \/ \E r \in JobIds : StartQueue(r)
  \/ \E r \in JobIds : StartThread(r)
  \/ \E j \in JobIds : Worker(j)
  \/ \E j \in JobIds : Subscribe("o1", j)
  \/ Receive("o1")

Fairness ==
  /\ \A j \in JobIds : WF_vars(StartQueue(j)) /\ WF_vars(StartThread(j))
  /\ \A j \in JobIds : WF_vars(Worker(j))
  /\ WF_vars(Receive("o1"))

SpecLive == InitLive /\ [][NextLive]_vars /\ Fairness

(***************************************************************************)
(* Properties.                                                             *)
(***************************************************************************)
\* the matching loop of job j has handled every before-image
LoopFinished(j) ==
  j \in DOMAIN JOBS /\ w[j].nb > 0 /\ JOBS[j].done = w[j].nb

DistinctAfter(pairs) ==
  \A p, q \in 1..Len(pairs) : p # q => pairs[p].a # pairs[q].a

IsFallback(p) == p.s = FALLBACK
IsConfident(p, threshold) == p.s # FALLBACK /\ p.s >= threshold

\* C1: at every point of the matching loop and in the result, the after-indices
\* of the emitted pairs are pairwise distinct, in build_report and in best_pairs.
C1_AfterImagesDistinct ==
  /\ \A j \in JobIds : DistinctAfter(w[j].pairs)
  /\ cli.pc = "saved" =>
       /\ DistinctAfter(cli.pairs)
       /\ \A n \in 0..Len(disk[cli.dir].before) :
            DistinctAfter(BestPairsLoop(n, disk[cli.dir].before, disk[cli.dir].after,
                                        cli.threshold).pairs)

\* a finished loop that emitted a confident pair and a fallback pair
C1_Witness ==
  \E j \in JobIds :
    /\ LoopFinished(j)
    /\ Len(w[j].pairs) = 2
    /\ \E p, q \in 1..2 : IsConfident(w[j].pairs[p], w[j].threshold) /\ IsFallback(w[j].pairs[q])

\* C2: every pair is a confident match with score >= threshold or a fallback pair
\* with score -1; matched counts the former and unmatched the latter.
C2_ScoreTellsKind ==
  \A j \in DOMAIN JOBS :
    LET pairs == w[j].pairs
        conf  == {p \in 1..Len(pairs) : IsConfident(pairs[p], w[j].threshold)}
        fall  == {p \in 1..Len(pairs) : IsFallback(pairs[p])}
    IN /\ conf \cup fall = 1..Len(pairs)
       /\ \A p \in conf : pairs[p].s >= 0
       /\ JOBS[j].matched = Cardinality(conf)
       /\ JOBS[j].unmatched = Cardinality(fall)

\* a job that is done with one confident and one fallback pair
C2_Witness ==
  \E j \in DOMAIN JOBS :
    /\ JOBS[j].state = "done"
    /\ JOBS[j].matched = 1
    /\ JOBS[j].unmatched = 1

\* the scenario of C3: two before, two after, B1-A2 0.9, B2-A1 0.3, the rest below 0.7
ScenarioScores(score(_, _), befores, afters) ==
  /\ Len(befores) = 2
  /\ Len(afters) = 2
  /\ score(At(befores, 0), At(afters, 1)) = 180
  /\ score(At(befores, 1), At(afters, 0)) = 60
  /\ score(At(befores, 0), At(afters, 0)) < 140
  /\ score(At(befores, 1), At(afters, 1)) < 140

WebScore(b, a) == score_pair(Descriptor(b), Descriptor(a))

WebScenario(j) ==
  /\ LoopFinished(j)
  /\ w[j].threshold = 140
  /\ ScenarioScores(WebScore, disk[j].before, disk[j].after)

CliScenario ==
  /\ cli.pc = "saved"
  /\ cli.threshold = 140
  /\ ScenarioScores(orb_score, disk[cli.dir].before, disk[cli.dir].after)

\* C3 as claimed: B1 is paired with A2 at 0.9 and B2 with A1 by fallback at -1
C3_AsClaimed ==
  LET claimed == <<[b |-> 0, a |-> 1, s |-> 180], [b |-> 1, a |-> 0, s |-> FALLBACK]>>
  IN /\ \A j \in JobIds : WebScenario(j) => w[j].pairs = claimed
     /\ CliScenario => cli.pairs = claimed

\* C3: in the scenario, with a top-K width of at least 2 (and in best_pairs),
\* B1 is paired with A2 at 0.9 and B2 is left unpaired: its fallback partner is
\* the after-image at its own index, A2, which is used.
C3_ScenarioResult ==
  LET result == <<[b |-> 0, a |-> 1, s |-> 180]>>
  IN /\ \A j \in JobIds :
          WebScenario(j) /\ Max(1, TOPK) >= 2 =>
            /\ w[j].pairs = result
            /\ JOBS[j].matched = 1
            /\ JOBS[j].unmatched = 0
     /\ CliScenario => cli.pairs = result

C3_Witness ==
  \E j \in JobIds :
    /\ WebScenario(j)
    /\ Max(1, TOPK) >= 2
    /\ JOBS[j].state = "done"
    /\ Len(w[j].pairs) = 1

\* C4 as claimed: every change of a job's record by the worker is published at once
C4_AsClaimed ==
  [][\A j \in DOMAIN JOBS :
       JOBS'[j] # JOBS[j] => published'[j] = Append(published[j], JOBS'[j])]_vars

\* the publication numbers of what observer o received, and of what waits in the queue of j
Received(o) == {obs[o].got[k].n : k \in 1..Len(obs[o].got)}
Waiting(j) == (Len(published[j]) - Len(EVENTS[j]) + 1)..Len(published[j])

\* C5 as claimed: a message published after two observers of a job both subscribed
\* and received by one of them is received by the other or still waits for it
C5_AsClaimed ==
  \A o1, o2 \in Observers :
    (o1 # o2 /\ obs[o1].st = "open" /\ obs[o2].st = "open" /\ obs[o1].job = obs[o2].job) =>
      \A n \in Received(o1) :
        (n > obs[o1].since /\ n > obs[o2].since) =>
          n \in Received(o2) \cup Waiting(obs[o2].job)

EmptyInput(d) == disk[d].before = <<>> \/ disk[d].after = <<>>

\* no worker thread of job r has been started
NotStarted(r) == pc[r] \in {"idle", "start_queue", "start_thread"}

\* C6 as claimed: with an empty before/ or after/ no worker is started and the
\* job never enters the preprocessing state
C6_AsClaimed ==
  \A r \in JobIds :
    EmptyInput(r) =>
      /\ NotStarted(r)
      /\ r \in DOMAIN JOBS => JOBS[r].state # "preprocess"

\* C7 as claimed: a job whose threshold is outside [0, 1] never matches and is never done
C7_AsClaimed ==
  \A j \in DOMAIN JOBS :
    (w[j].threshold < 0 \/ w[j].threshold > NORM) =>
      JOBS[j].state \notin {"matching", "done"}

C9_AsClaimed ==
  [][\A j \in JobIds :
       pc[j] \in {"fp_before", "fp_after"} => pc'[j] # "except"]_vars

\* the edges C10 names, with the record's "preprocess" for preprocessing
ClaimedEdges ==
  {<<"queued", "preprocess">>, <<"preprocess", "matching">>, <<"matching", "done">>,
   <<"queued", "error">>, <<"preprocess", "error">>, <<"matching", "error">>}

StateEdges ==
  {<<"queued", "starting">>, <<"starting", "preprocess">>, <<"preprocess", "matching">>,
   <<"matching", "done">>,
   <<"queued", "error">>, <<"starting", "error">>, <<"preprocess", "error">>,
   <<"matching", "error">>}

\* C10 as claimed: the state moves only along queued -> preprocessing -> matching -> done, or to error
C10_AsClaimed ==
  [][\A j \in DOMAIN JOBS :
       JOBS'[j].state # JOBS[j].state =>
         <<JOBS[j].state, JOBS'[j].state>> \in ClaimedEdges]_vars

\* C10: the state moves only forward along queued -> starting -> preprocess ->
\* matching -> done, or from a state that is not terminal to error; done and
\* error are never left.
C10_StateMovesForward ==
  [][\A j \in DOMAIN JOBS :
       JOBS'[j].state # JOBS[j].state =>
         <<JOBS[j].state, JOBS'[j].state>> \in StateEdges]_vars

\* a job that went through every state to done
C10_Witness ==
  \E j \in DOMAIN JOBS :
    /\ JOBS[j].state = "done"
    /\ Len(published[j]) = 2
    /\ published[j][1].state = "starting"

\* what observer o received after the ping
Data(o) == [k \in 1..(Len(obs[o].got) - 1) |-> obs[o].got[k + 1].data]

OpenOn(o, j) == obs[o].st = "open" /\ obs[o].job = j

\* C11: with a single observer, what it received followed by what waits in the
\* queue is what the worker published, in that order, whenever it subscribed; what
\* waits is eventually received; and a worker at a publish step is never blocked.
C11_SingleObserverReceivesAll ==
  /\ [](\A j \in DOMAIN EVENTS :
          IF OpenOn("o1", j)
          THEN Data("o1") \o EVENTS[j] = published[j]
          ELSE EVENTS[j] = published[j])
  /\ \A j \in JobIds :
       OpenOn("o1", j) ~> (pc[j] = "exit" /\ EVENTS[j] = <<>> /\ Data("o1") = published[j])
  /\ [](\A j \in JobIds :
          pc[j] \in {"run_job", "final_push", "except"} => ENABLED Worker(j))

\* the observer subscribed after the worker had published both events and got both
C11_Witness ==
  \E j \in DOMAIN EVENTS :
    /\ OpenOn("o1", j)
    /\ obs["o1"].since = 2
    /\ Len(Data("o1")) = 2
    /\ Data("o1") = published[j]

\* C12: the first item an observer receives is the ping and every later item is a
\* message of the queue, however many messages waited when it subscribed.
C12_PingFirst ==
  \A o \in Observers :
    obs[o].st = "open" =>
      /\ obs[o].got # <<>>
      /\ obs[o].got[1] = Ping
      /\ \A k \in 2..Len(obs[o].got) : obs[o].got[k].event = "message"

\* an observer that subscribed when two messages waited and has received one of them
C12_Witness ==
  \E o \in Observers :
    /\ obs[o].st = "open"
    /\ obs[o].since = 2
    /\ Len(obs[o].got) = 2
    /\ obs[o].got[2].n = 1

\* the last message of job j is terminal and carries its payload
TerminalEvent(j) ==
  /\ published[j] # <<>>
  /\ LET e == Last(published[j])
     IN \/ e.state = "done" /\ "download" \in DOMAIN e /\ e.download # ""
        \/ e.state = "error" /\ "error" \in DOMAIN e /\ e.error # ""

\* C18: every job start() has created eventually publishes a terminal message, which
\* says done with the download path or error with the description; a worker that
\* ends without an exception has published done.
C18_TerminalEventPublished ==
  /\ \A j \in JobIds : (j \in DOMAIN JOBS) ~> TerminalEvent(j)
  /\ [](\A j \in JobIds :
          (pc[j] = "exit" /\ ~exc[j].raised) => Last(published[j]).state = "done")

\* a worker that ended without an exception
C18_Witness ==
  \E j \in JobIds :
    /\ pc[j] = "exit"
    /\ ~exc[j].raised
    /\ TerminalEvent(j)
    /\ Last(published[j]).state = "done"

\* what job j alone publishes about its input: after "starting", the counts of its own folders
OwnCounts(j, e) ==
  e.state = "starting" \/ (e.before = Len(disk[j].before) /\ e.after = Len(disk[j].after))

\* C13 as claimed: whatever the other jobs do, every message of a job tells of its
\* own input, and every picture placed in its document is the picture the job
\* itself wrote to the temporary file
C13_AsClaimed ==
  \A j \in DOMAIN JOBS :
    /\ \A k \in 1..Len(published[j]) : OwnCounts(j, published[j][k])
    /\ \A k \in 1..Len(w[j].doc) : w[j].doc[k] = <<Picture(j, w[j].pairs, k - 1)>>

\* the before-images the finished loop of job j left without a pair
Unpaired(j) == w[j].nb - Len(w[j].pairs)

\* C14 as claimed: when the loop left before-images unpaired, the record reports
\* how many: under a key of its own, or by counting them as unmatched
C14_AsClaimed ==
  \A j \in DOMAIN JOBS :
    (LoopFinished(j) /\ Unpaired(j) > 0) =>
      \/ \E k \in DOMAIN JOBS[j] \ (DOMAIN NewJob \cup {"download", "error"}) :
           JOBS[j][k] = Unpaired(j)
      \/ JOBS[j].unmatched = JOBS[j].total - JOBS[j].matched

\* C15 as claimed: the pairs handed to rendering hold one entry for every
\* before-image, in the order of the before-images
C15_AsClaimed ==
  \A j \in JobIds :
    pc[j] = "render" =>
      /\ Len(w[j].pairs) = w[j].nb
      /\ \A k \in 1..Len(w[j].pairs) : w[j].pairs[k].b = k - 1

\* the candidate list of job j, just computed for before-image idx
Scoring(j) == pc[j] = "score"

Elems(s) == {s[k] : k \in 1..Len(s)}
NoDuplicates(s) == \A p, q \in 1..Len(s) : p # q => s[p] # s[q]
Unused(j) == {x \in 0..(w[j].na - 1) : x \notin w[j].used}

\* the fingerprint distance of after-image x to the before-image job j is resolving
Distance(j, x) == hamming(At(w[j].be_ph, w[j].idx), At(w[j].af_ph, x))

\* x comes before y in the order (distance ascending, index ascending)
Nearer(j, x, y) ==
  Distance(j, x) < Distance(j, y) \/ (Distance(j, x) = Distance(j, y) /\ x < y)

\* C16 as claimed: the candidate list has no used index, no duplicate and at most K entries
C16_AsClaimed ==
  \A j \in JobIds :
    Scoring(j) =>
      /\ Elems(w[j].cand) \cap w[j].used = {}
      /\ NoDuplicates(w[j].cand)
      /\ Len(w[j].cand) <= TOPK

\* C16: the candidate list has no used index, no duplicate and at most max(1, K)
\* entries, K being the configured width.
C16_CandidatesBounded ==
  \A j \in JobIds :
    Scoring(j) =>
      /\ Elems(w[j].cand) \cap w[j].used = {}
      /\ NoDuplicates(w[j].cand)
      /\ Len(w[j].cand) <= Max(1, TOPK)

\* a width of 0, an after-image used, and still one candidate
C16_Witness ==
  \E j \in JobIds :
    /\ Scoring(j)
    /\ TOPK = 0
    /\ w[j].used # {}
    /\ Len(w[j].cand) = 1

\* the list is the first n of the unused after-indices in the order Nearer
FirstNearest(j, n) ==
  /\ Len(w[j].cand) = Min(Cardinality(Unused(j)), n)
  /\ Elems(w[j].cand) \subseteq Unused(j)
  /\ \A p, q \in 1..Len(w[j].cand) : p < q => Nearer(j, w[j].cand[p], w[j].cand[q])
  /\ \A x \in Elems(w[j].cand), y \in Unused(j) \ Elems(w[j].cand) : Nearer(j, x, y)

\* the pairs and counters of the matcher after n before-images, computed from the
\* fingerprints, the scores, the order, the threshold and K alone
RECURSIVE MatcherRun(_, _, _, _)
MatcherRun(n, d, threshold, topk) ==
  IF n = 0 THEN [pairs |-> <<>>, used |-> {}, matched |-> 0, unmatched |-> 0]
  ELSE LET prev == MatcherRun(n - 1, d, threshold, topk)
           l    == [be_desc |-> Descriptors(d.before), af_desc |-> Descriptors(d.after),
                    af_ph |-> Hashes(d.after), used |-> prev.used, pairs |-> prev.pairs,
                    threshold |-> threshold,
                    cand |-> Candidates(At(Hashes(d.before), n - 1), Hashes(d.after),
                                        prev.used, topk)]
           r    == MatchOne(n - 1, l)
       IN [pairs |-> r.pairs, used |-> r.used,
           matched |-> prev.matched + (IF r.kind = "matched" THEN 1 ELSE 0),
           unmatched |-> prev.unmatched + (IF r.kind = "unmatched" THEN 1 ELSE 0)]

C19_AsClaimed ==
  \A j \in JobIds : Scoring(j) => FirstNearest(j, TOPK)

\* C19: the candidate list is the first max(1, K) of the unused after-indices sorted
\* by (Hamming distance ascending, after-index ascending): all of them when fewer
\* remain, none when none remains.
C19_CandidatesAreNearest ==
  \A j \in JobIds : Scoring(j) => FirstNearest(j, Max(1, TOPK))

\* two unused after-images at the same distance and room for one: the lower index is taken
C19_Witness ==
  \E j \in JobIds :
    /\ Scoring(j)
    /\ TOPK = 1
    /\ Unused(j) = {0, 1}
    /\ Distance(j, 0) = Distance(j, 1)
    /\ w[j].cand = <<0>>

\* C20: the candidate the scan selects has the maximum score of the candidates; among
\* the candidates of that score it is the nearest by fingerprint, then the lowest index.
C20_BestIsFirstMaximum ==
  \A j \in JobIds :
    (Scoring(j) /\ w[j].cand # <<>>) =>
      LET score == Scores(w[j].idx, w[j])
          best  == BestOf(w[j].cand, score, NoBest)
      IN /\ best.j \in Elems(w[j].cand)
         /\ best.s = score[best.j]
         /\ \A x \in Elems(w[j].cand) :
              /\ score[x] <= best.s
              /\ (score[x] = best.s /\ x # best.j) => Nearer(j, best.j, x)

\* two candidates of the same score: the nearer one is selected though its index is higher
C20_Witness ==
  \E j \in JobIds :
    /\ Scoring(j)
    /\ w[j].cand = <<1, 0>>
    /\ Scores(w[j].idx, w[j])[0] = Scores(w[j].idx, w[j])[1]
    /\ Distance(j, 1) < Distance(j, 0)
    /\ BestOf(w[j].cand, Scores(w[j].idx, w[j]), NoBest).j = 1

\* what the fallback rule allows for before-image i, from pairs and used before the
\* iteration to pairs and used after it, when no candidate reached the threshold
FallbackRule(i, na, used, pairs, used2, pairs2) ==
  IF i < na /\ i \notin used
  THEN /\ pairs2 = Append(pairs, [b |-> i, a |-> i, s |-> FALLBACK])
       /\ used2 = used \cup {i}
  ELSE /\ pairs2 = pairs
       /\ used2 = used

\* no candidate of job j, or none whose score reaches the threshold
WebBelow(j) ==
  \A x \in Elems(w[j].cand) : Scores(w[j].idx, w[j])[x] < w[j].threshold

\* best_pairs at before-image n - 1: no unused after-image scores the threshold
CliBelow(n, befores, afters, threshold, used) ==
  \A x \in BpUnused(Len(afters), used) :
    orb_score(At(befores, n - 1), At(afters, x)) < threshold

\* C21: before-images are resolved in their order, one index at a time; when no
\* candidate reaches the threshold the only fallback partner of before-image i is
\* after-image i: paired with score -1 and marked used exactly when i is in range
\* and unused, and otherwise no pair is made and used is left alone. In build_report
\* and in best_pairs.
C21_FallbackIsPositional ==
  /\ [][\A j \in JobIds :
          /\ (pc[j] = "score" /\ pc'[j] # "score" /\ WebBelow(j)) =>
                FallbackRule(w[j].idx, w[j].na, w[j].used, w[j].pairs,
                             w'[j].used, w'[j].pairs)
          /\ (pc[j] = "match_done" /\ pc'[j] # "match_done") => w'[j].idx = w[j].idx + 1
          /\ (pc[j] = "match" /\ pc'[j] = "score") =>
                \A k \in 1..Len(w[j].pairs) : w[j].pairs[k].b < w[j].idx]_vars
  /\ [](cli.pc = "saved" =>
          \A n \in 1..Len(disk[cli.dir].before) :
            LET befores == disk[cli.dir].before
                afters  == disk[cli.dir].after
                prev    == BestPairsLoop(n - 1, befores, afters, cli.threshold)
                cur     == BestPairsLoop(n, befores, afters, cli.threshold)
            IN CliBelow(n, befores, afters, cli.threshold, prev.used) =>
                 FallbackRule(n - 1, Len(afters), prev.used, prev.pairs,
                              cur.used, cur.pairs))

\* the second before-image found no candidate at the threshold and its own index
\* used, though another after-image is free: it was left without a pair
C21_Witness ==
  \E j \in JobIds :
    /\ pc[j] = "match_done"
    /\ w[j].idx = 1
    /\ WebBelow(j)
    /\ w[j].na = 2
    /\ w[j].used = {1}
    /\ Len(w[j].pairs) = 1

\* matched + unmatched of a progress record
Paired(e) == e.matched + e.unmatched

\* build_report is past its matching loop and has not raised since
PastLoop(j) ==
  pc[j] \in {"render", "tmp_save", "add_picture", "unlink", "save", "final_push"}

\* C22 as claimed: in every state of a job matched + unmatched is the number of
\* pairs emitted so far and is at most done, which is at most total
C22_AsClaimed ==
  \A j \in DOMAIN JOBS :
    /\ Paired(JOBS[j]) = Len(w[j].pairs)
    /\ Paired(JOBS[j]) <= JOBS[j].done
    /\ JOBS[j].done <= JOBS[j].total

\* C22: done, matched and unmatched never decrease; done grows by exactly one at
\* the end of each iteration, paired or not, and at no other step; matched +
\* unmatched is the number of pairs emitted, at most done at the head of every
\* iteration, after the loop and in every published message, and at most done + 1
\* between the counting of a pair and the end of its iteration; done is at most
\* total; after the loop done = total = before-count and matched + unmatched is at
\* most the smaller of before-count and after-count.
C22_CountersAdvance ==
  /\ [](\A j \in DOMAIN JOBS :
          /\ Paired(JOBS[j]) = Len(w[j].pairs)
          /\ Paired(JOBS[j]) <= JOBS[j].done + 1
          /\ pc[j] # "match_done" => Paired(JOBS[j]) <= JOBS[j].done
          /\ JOBS[j].done <= JOBS[j].total
          /\ \A k \in 1..Len(published[j]) :
               /\ Paired(published[j][k]) <= published[j][k].done
               /\ published[j][k].done <= published[j][k].total
          /\ PastLoop(j) =>
               /\ JOBS[j].done = JOBS[j].total
               /\ JOBS[j].total = Len(disk[j].before)
               /\ Paired(JOBS[j]) <= Min(Len(disk[j].before), Len(disk[j].after)))
  /\ [][\A j \in DOMAIN JOBS :
          /\ JOBS'[j].done >= JOBS[j].done
          /\ JOBS'[j].matched >= JOBS[j].matched
          /\ JOBS'[j].unmatched >= JOBS[j].unmatched
          /\ IF pc[j] = "match_done" /\ pc'[j] # "match_done"
             THEN JOBS'[j].done = JOBS[j].done + 1
             ELSE JOBS'[j].done = JOBS[j].done]_vars

\* the loop is over two before-images of which the second was left without a pair
C22_Witness ==
  \E j \in DOMAIN JOBS :
    /\ PastLoop(j)
    /\ JOBS[j].done = 2
    /\ Paired(JOBS[j]) = 1

\* s is the beginning of t
IsPrefix(s, t) == Len(s) <= Len(t) /\ \A k \in 1..Len(s) : s[k] = t[k]

\* s is the end of t
IsSuffix(s, t) ==
  Len(s) <= Len(t) /\ \A k \in 1..Len(s) : s[k] = t[Len(t) - Len(s) + k]

\* the observer has asked for a job that exists
Subscribed(o) == obs[o].st \in {"open", "gone", "closed"}

\* C23: once start() has created it, a job's record changes only in steps of the
\* job's own worker; an observer step leaves every record alone; a message is the
\* record as it was when it was published, in the queue and when received, and
\* neither the published messages nor the items an observer holds ever change.
C23_EventsAreSnapshots ==
  /\ [](\A j \in DOMAIN EVENTS : IsSuffix(EVENTS[j], published[j]))
  /\ [](\A o \in Observers :
          Subscribed(o) =>
            \A k \in 2..Len(obs[o].got) :
              obs[o].got[k].data = published[obs[o].job][obs[o].got[k].n])
  /\ [][/\ \A j \in DOMAIN JOBS :
            JOBS'[j] # JOBS[j] => (pc'[j] # pc[j] /\ obs' = obs)
        /\ \A j \in JobIds :
            /\ IsPrefix(published[j], published'[j])
            /\ published'[j] # published[j] =>
                 published'[j] = Append(published[j], JOBS'[j])
        /\ \A o \in Observers :
            Subscribed(o) => IsPrefix(obs[o].got, obs'[o].got)]_vars

\* the observer holds the first message, which says starting, and the record has
\* moved on to done
C23_Witness ==
  \E o \in Observers :
    /\ obs[o].st = "open"
    /\ Len(obs[o].got) = 2
    /\ obs[o].got[2].data.state = "starting"
    /\ JOBS[obs[o].job].state = "done"

\* a message that says done or error
IsTerminal(e) == e.state \in {"done", "error"}

\* the positions of the terminal messages among those published for job j
Terminals(j) == {k \in 1..Len(published[j]) : IsTerminal(published[j][k])}

\* C24: a job publishes at most one terminal message, nothing after it, and exactly
\* one by the time its worker has ended; an open stream is never ended by the code,
\* whatever it has delivered: it leaves the open state only when its client drops
\* the connection, and with the queue empty it waits; a step of an observer,
\* abandoning included, changes nothing of the worker, which can always go on.
C24_OneTerminalEvent ==
  /\ [](\A j \in JobIds :
          /\ Cardinality(Terminals(j)) <= 1
          /\ Terminals(j) \subseteq {Len(published[j])}
          /\ pc[j] = "exit" => Cardinality(Terminals(j)) = 1
          /\ (~NotStarted(j) /\ pc[j] # "exit") => ENABLED Worker(j))
  /\ [](\A o \in Observers :
          (obs[o].st = "open" /\ EVENTS[obs[o].job] = <<>>) => ~ENABLED Receive(o))
  /\ [][/\ \A j \in JobIds :
            Terminals(j) # {} => published'[j] = published[j]
        /\ \A o \in Observers :
            obs[o].st = "open" =>
              \/ obs'[o].st = "open"
              \/ /\ obs' = [obs EXCEPT ![o].st = "gone"]
                 /\ EVENTS' = EVENTS
        /\ obs' # obs =>
            UNCHANGED <<disk, TOPK, todo, resp, JOBS, published, pc, exc, w, cli, tmp>>]_vars

\* the worker has ended after one observer dropped its connection; the other
\* observer has been handed the terminal message and its stream is still open
C24_Witness ==
  \E o, o2 \in Observers :
    /\ obs[o].st = "gone"
    /\ obs[o2].st = "open"
    /\ pc[obs[o2].job] = "exit"
    /\ obs[o].job = obs[o2].job
    /\ EVENTS[obs[o2].job] = <<>>
    /\ Len(obs[o2].got) >= 2
    /\ IsTerminal(Last(obs[o2].got).data)

\* the worker of job j is at one of its three calls of push
AtPush(j) == pc[j] \in {"run_job", "final_push", "except"}

\* C25: start() has stored the record and the queue of a job when it starts the
\* worker, and answers with the id in the step that starts the worker, before the
\* worker has done anything; so every push of a worker puts its message on the
\* queue, a subscription by an id start() has returned is opened on that job, and
\* a subscription that is rejected creates no record and no queue.
C25_RegisteredBeforeStarted ==
  /\ [](\A j \in JobIds :
          /\ pc[j] = "start_thread" => (j \in DOMAIN JOBS /\ j \in DOMAIN EVENTS)
          /\ ~NotStarted(j) => (j \in DOMAIN JOBS /\ j \in DOMAIN EVENTS)
          /\ resp[j] = "ok" <=> ~NotStarted(j))
  /\ [][\A j \in JobIds :
          /\ resp'[j] # resp[j] /\ resp'[j] = "ok" =>
               (pc[j] = "start_thread" /\ pc'[j] = "run_job" /\ published'[j] = <<>>)
          /\ (AtPush(j) /\ pc'[j] # pc[j]) =>
               /\ EVENTS'[j] = Append(EVENTS[j], JOBS'[j])
               /\ published'[j] = Append(published[j], JOBS'[j])
          /\ \A o \in Observers :
               (resp[j] = "ok" /\ Subscribe(o, j)) =>
                  (obs'[o].st = "open" /\ obs'[o].job = j)]_vars
  /\ [][\A o \in Observers :
          (obs'[o].st = "404" /\ obs[o].st # "404") =>
             /\ \E j \in JobIds : j \notin DOMAIN EVENTS /\ Subscribe(o, j)
             /\ UNCHANGED <<JOBS, EVENTS, published, pc, resp, todo>>]_vars

\* start() has answered, the worker has published, one observer has subscribed by
\* the returned id and another was turned away
C25_Witness ==
  \E r \in JobIds, o, o2 \in Observers :
    /\ resp[r] = "ok"
    /\ published[r] # <<>>
    /\ obs[o].st = "open"
    /\ obs[o].job = r
    /\ obs[o2].st = "404"
    /\ DOMAIN EVENTS = {r}

====
